---------------------------- MODULE Spec2Model ----------------------------
(***************************************************************************)
(* hammer: an interactive load tester (src/unnamed/part_001).              *)
(*                                                                         *)
(* Goroutines: main (the termbox input loop), hammer (spawns the workers   *)
(* and refills workChan once per second), the workers, and one expiry      *)
(* goroutine per recorded outcome (the closure in addToHistogram).         *)
(* Shared state: reqQPS, numWorkers (atomics), workChan (buffered),        *)
(* doneChan (unbuffered: a send is a rendezvous with a worker's select),   *)
(* hmu and histogram.                                                      *)
(*                                                                         *)
(* Time is discrete: one Tick is one second.                               *)
(* Workers and expiry goroutines are anonymous, so each pool is a bag of   *)
(* goroutine records.                                                      *)
(***************************************************************************)
EXTENDS Integers, Sequences, FiniteSets, Bags, TLC

VARIABLES
    fetcher,      \* the --fetcher flag
    reqQPS,       \* int32, target rate
    numWorkers,   \* int64, the -w flag, then the worker counter
    main,         \* input loop: [pc, i, ret]
    hammer,       \* hammer goroutine: [pc, i]
    ticker,       \* time.Tick(time.Second) of hammer: [t, ready]
    workChan,     \* number of tickets buffered in workChan
    workers,      \* bag of worker goroutines: [pc, todo, perm, nExec, nAdd]
    hmu,          \* TRUE when the histogram mutex is held
    histogram,    \* map from classification to count
    expiry,       \* bag of expiry goroutines: [s, pc, elapsed]
    quota,        \* history: <<reqQPS when the latest refill started>>
    refill,       \* history since the latest drain: [taken, maxRead]
    ticktock      \* the sleep-based emitter of part_000: [pc, delay]

vars == <<fetcher, reqQPS, numWorkers, main, hammer, ticker, workChan,
          workers, hmu, histogram, expiry, quota, refill, ticktock>>

----------------------------------------------------------------------------
(* Bounds of the model *)

\* largest value of the -w flag tried
MaxInitWorkers == 2
\* at most this many outcomes await expiry at a time
MaxPending == 2
\* the up arrow is pressed only while the rate is below this
MaxRate == 2
\* the same bounds where the user also presses the rate keys, or where
\* requests come back with every outcome
MaxFewWorkers == 1
MaxFewPending == 1
\* the pool specification: the right arrow is pressed while the counter is
\* at most MaxPoolWorkers - StepWorkers
MaxPoolWorkers == 11
\* the emission specification: the up arrow is pressed at most this often
MaxDoublings == 20

(* Program constants *)

\* time.Second, in ticks
Second == 1
\* workers added or stopped per arrow key
StepWorkers == 10
\* capacity of workChan
WorkChanCap == 1000000
\* width of reqQPS
Int32Bits == 32

\* the lateness allowed to an expiry, in ticks
Slack == 1

----------------------------------------------------------------------------
(* int32 arithmetic *)

\* 2^30: a quarter of the range of an int32
Quarter == 2 ^ (Int32Bits - 2)

\* Go's integer division truncates toward zero (b > 0): for a negative a
\* that is the quotient rounded up, computed without negating a
Quot(a, b) == IF a >= 0 THEN a \div b ELSE (a + (b - 1)) \div b

\* 2*q in int32: the product modulo 2^32, taken in [-2^31, 2^31).  The sums
\* are arranged so that no intermediate value leaves that range.
DoubleRate(q) ==
    IF q >= Quarter THEN ((q - Quarter) - Quarter) + ((q - Quarter) - Quarter)
    ELSE IF q < -Quarter THEN ((q + Quarter) + Quarter) + ((q + Quarter) + Quarter)
    ELSE 2 * q

HalveRate(q) == Quot(q, 2)

----------------------------------------------------------------------------
(* Bags of goroutines *)

One(x) == SetToBag({x})

Replace(B, old, new) == (B (-) One(old)) (+) One(new)

RECURSIVE SumCopies(_, _)
SumCopies(B, S) ==
    IF S = {} THEN 0
    ELSE LET x == CHOOSE y \in S : TRUE
         IN  CopiesIn(x, B) + SumCopies(B, S \ {x})

\* the bag of f(x) for x in B
BagMap(B, f(_)) ==
    [y \in {f(x) : x \in BagToSet(B)} |->
        SumCopies(B, {x \in BagToSet(B) : f(x) = y})]

\* how many members of B satisfy P
CountIf(B, P(_)) == SumCopies(B, {x \in BagToSet(B) : P(x)})


----------------------------------------------------------------------------
(* The histogram map *)

\* histogram[s] of a Go map: the zero value when s is no key
Get(h, s) == IF s \in DOMAIN h THEN h[s] ELSE 0

Put(h, s, n) == [k \in DOMAIN h \cup {s} |-> IF k = s THEN n ELSE h[k]]

\* a bug: histogram[s] = 1
IncrementOverwrite(h, s) == Put(h, s, 1)

\* histogram[s]++
Increment(h, s) == Put(h, s, Get(h, s) + 1)

\* histogram[s]--
Decrement(h, s) == Put(h, s, Get(h, s) - 1)

\* a bug: the key is never deleted
NeverDelete(h, s) == h

\* if histogram[s] == 0 { delete(histogram, s) }
DeleteIfZero(h, s) ==
    IF Get(h, s) = 0 THEN [k \in DOMAIN h \ {s} |-> h[k]] ELSE h

EmptyMap == [k \in {} |-> 0]

----------------------------------------------------------------------------
(* The request executor, as the worker's switch uses it *)

Fetchers == {"go", "noop", "curl"}

ReadFailed == "Failed to read response body"
CloseFailed == "Failed to close response body"
ErrText == "connection refused"
StatusText == "OK"
CurlError == "curl: (7) Failed to connect"
CurlBody == "body"
DidNothing == "Did nothing"
Unrecognized == "Unrecognized value for --fetcher"

Classes == {ReadFailed, CloseFailed, ErrText, StatusText, CurlError, CurlBody,
            DidNothing, Unrecognized}

\* what one request can come back with: resp and err of client.Get (never
\* both nil), the errors of ioutil.ReadAll and of Body.Close; curl's output
\* is its error text when err, else the body
Outcomes ==
    {o \in [resp : BOOLEAN, err : BOOLEAN, readErr : BOOLEAN, closeErr : BOOLEAN] :
        /\ o.resp \/ o.err
        /\ (o.readErr \/ o.closeErr) => o.resp
        /\ ~(o.readErr /\ o.closeErr)}

\* the outcomes of a server whose response bodies can always be read and
\* closed
CleanOutcomes == {o \in Outcomes : ~o.readErr /\ ~o.closeErr}

\* the status text of the "go" branch, lines 155-161
GoStatus(o) == IF o.err THEN ErrText ELSE StatusText

\* a bug: the `continue` after a failed read of the body is missing
FetchCallsFallThrough(f, o) ==
    CASE f = "curl" -> << IF o.err THEN CurlError ELSE CurlBody >>
      [] f = "go"   -> IF o.resp /\ o.readErr THEN << ReadFailed, GoStatus(o) >>
                       ELSE IF o.resp /\ o.closeErr THEN << CloseFailed >>
                       ELSE << GoStatus(o) >>
      [] f = "noop" -> << DidNothing >>
      [] OTHER      -> << Unrecognized >>

\* The classifications one iteration of the worker's switch passes to
\* addToHistogram, in order, for fetcher f and request outcome o.
FetchCalls(f, o) ==
    CASE f = "curl" -> << IF o.err THEN CurlError ELSE CurlBody >>
      [] f = "go"   -> IF o.resp /\ o.readErr THEN << ReadFailed >>
                       ELSE IF o.resp /\ o.closeErr THEN << CloseFailed >>
                       ELSE << GoStatus(o) >>
      [] f = "noop" -> << DidNothing >>
      [] OTHER      -> << Unrecognized >>

----------------------------------------------------------------------------
(* Goroutine records *)

NewWorker == [pc |-> "select", todo |-> << >>, perm |-> 0, nExec |-> 0, nAdd |-> 0]

\* go func() { <-time.After(time.Second) ... }: the timer is taken to start
\* with the goroutine (a goroutine that starts late is one that wakes late)
NewExpiry(s) == [s |-> s, pc |-> "sleep", elapsed |-> 0]

Min(a, b) == IF a < b THEN a ELSE b

\* a second passes for an expiry goroutine; what its timer has run beyond
\* Second is counted up to `late`
ExpiryTick(e, late) == [e EXCEPT !.elapsed = Min(e.elapsed + 1, Second + late)]

\* a bug: no wait before the decrement
FiredAtOnce(e) == TRUE

\* <-time.After(time.Second) can return
Fired(e) == e.elapsed >= Second

\* nothing taken from workChan and no rate read since the latest drain
NewRefill == [taken |-> 0, maxRead |-> 0]

\* the state once the flags are parsed: -w is at most maxWorkers
InitFlags(maxWorkers) ==
    /\ fetcher \in Fetchers \cup {"bogus"}
    /\ reqQPS = 1
    /\ numWorkers \in 0 .. maxWorkers
    /\ main = [pc |-> "start", i |-> 0, ret |-> "start"]
    /\ hammer = [pc |-> "none", i |-> 0]
    /\ ticker = [t |-> 0, ready |-> FALSE]
    /\ workChan = 0
    /\ workers = EmptyBag
    /\ hmu = FALSE
    /\ histogram = EmptyMap
    /\ expiry = EmptyBag
    /\ quota = << >>
    /\ refill = NewRefill
    /\ ticktock = [pc |-> "none", delay |-> 0]

----------------------------------------------------------------------------
(* Time *)

\* A second passes: running timers count down and the ticker of
\* hammer, once started, delivers a tick every Second (its channel holds
\* one tick; further ticks are dropped while it is full).
Advance(late) ==
    /\ main.pc # "start"
    /\ expiry' = BagMap(expiry, LAMBDA e : ExpiryTick(e, late))
    /\ ticker' = IF ticker.t = 0 THEN ticker
                 ELSE IF ticker.t = 1 THEN [t |-> Second, ready |-> TRUE]
                 ELSE [ticker EXCEPT !.t = ticker.t - 1]
    /\ UNCHANGED <<fetcher, reqQPS, numWorkers, main, hammer, workChan,
                   workers, hmu, histogram, quota, refill,
                   ticktock>>

\* the clock, telling whether a timer has fired
Tick == Advance(0)

\* the clock, telling also whether a timer fired more than Slack ago
TickLate == Advance(Slack)

----------------------------------------------------------------------------
(* worker, lines 122-169 *)

\* select { case <-doneChan: return }: taken when main is blocked in its
\* send on doneChan
WorkerStop ==
    /\ main.pc = "left_send"
    /\ \E w \in BagToSet(workers) :
        /\ w.pc = "select"
        /\ workers' = workers (-) One(w)
    /\ main' = [main EXCEPT !.pc = "left_dec"]
    /\ UNCHANGED <<fetcher, reqQPS, numWorkers, hammer, ticker, workChan,
                   hmu, histogram, expiry, quota, refill,
                   ticktock>>

\* select { default: }: taken when no send on doneChan is waiting
WorkerSelectDefault ==
    /\ main.pc # "left_send"
    /\ \E w \in BagToSet(workers) :
        /\ w.pc = "select"
        /\ workers' = Replace(workers, w,
                [w EXCEPT !.pc = "recv", !.perm = 0, !.nExec = 0, !.nAdd = 0])
    /\ UNCHANGED <<fetcher, reqQPS, numWorkers, main, hammer, ticker, workChan,
                   hmu, histogram, expiry, quota, refill,
                   ticktock>>

\* the history once one more ticket is taken, or one more rate read
Taken(r) == [r EXCEPT !.taken = r.taken + 1]

Read(r, q) == [r EXCEPT !.maxRead = IF q > r.maxRead THEN q ELSE r.maxRead]

\* a worker that holds a ticket
Took(w) == [w EXCEPT !.pc = "fetch", !.perm = 1]

\* <-workChan: a buffered ticket is taken at once; with none the worker
\* parks on the channel until hammer sends
WorkerRecv ==
    /\ \E w \in BagToSet(workers) :
        /\ w.pc = "recv"
        /\ IF workChan > 0
           THEN /\ workChan' = workChan - 1
                /\ workers' = Replace(workers, w, Took(w))
                /\ refill' = Taken(refill)
           ELSE /\ workers' = Replace(workers, w, [w EXCEPT !.pc = "parked"])
                /\ UNCHANGED <<workChan, refill>>
    /\ UNCHANGED <<fetcher, reqQPS, numWorkers, main, hammer, ticker,
                   hmu, histogram, expiry, quota, ticktock>>

\* where a worker goes after its switch statement has made the calls left
AfterCalls(w, left) ==
    [w EXCEPT !.todo = left,
              !.pc = IF left = << >> THEN "select" ELSE "add_lock"]

\* a bug: a worker returns when its request fails
WorkerFetchQuitOnError(O) ==
    /\ \E w \in BagToSet(workers), o \in O :
        /\ w.pc = "fetch"
        /\ workers' = IF o.err THEN workers (-) One(w)
                      ELSE Replace(workers, w,
                             AfterCalls([w EXCEPT !.nExec = w.nExec + 1],
                                        FetchCalls(fetcher, o)))
    /\ UNCHANGED <<fetcher, reqQPS, numWorkers, main, hammer, ticker, workChan,
                   hmu, histogram, expiry, quota, refill,
                   ticktock>>

\* switch *fetcher: the request is made and comes back with an outcome o
\* of those in O
WorkerFetch(O) ==
    /\ \E w \in BagToSet(workers), o \in O :
        /\ w.pc = "fetch"
        /\ workers' = Replace(workers, w,
                AfterCalls([w EXCEPT !.nExec = w.nExec + 1], FetchCalls(fetcher, o)))
    /\ UNCHANGED <<fetcher, reqQPS, numWorkers, main, hammer, ticker, workChan,
                   hmu, histogram, expiry, quota, refill,
                   ticktock>>

----------------------------------------------------------------------------
(* addToHistogram, lines 173-186 *)

\* a bug: addToHistogram does not wait for hmu
AddLockNoWait(maxPending) ==
    /\ BagCardinality(expiry) < maxPending
    /\ \E w \in BagToSet(workers) :
        /\ w.pc = "add_lock"
        /\ workers' = Replace(workers, w, [w EXCEPT !.pc = "add_incr"])
    /\ hmu' = TRUE
    /\ UNCHANGED <<fetcher, reqQPS, numWorkers, main, hammer, ticker, workChan,
                   histogram, expiry, quota, refill, ticktock>>

\* hmu.Lock() of the caller; no outcome is recorded while maxPending
\* outcomes await their expiry
AddLock(maxPending) ==
    /\ ~hmu
    /\ BagCardinality(expiry) < maxPending
    /\ \E w \in BagToSet(workers) :
        /\ w.pc = "add_lock"
        /\ workers' = Replace(workers, w, [w EXCEPT !.pc = "add_incr"])
    /\ hmu' = TRUE
    /\ UNCHANGED <<fetcher, reqQPS, numWorkers, main, hammer, ticker, workChan,
                   histogram, expiry, quota, refill, ticktock>>

\* histogram[s]++, go func(), and the deferred hmu.Unlock(): the outcome is
\* counted, its expiry goroutine exists, and addToHistogram returns into
\* the worker's loop
AddIncrement ==
    /\ \E w \in BagToSet(workers) :
        /\ w.pc = "add_incr"
        /\ histogram' = Increment(histogram, Head(w.todo))
        /\ expiry' = expiry (+) One(NewExpiry(Head(w.todo)))
        /\ workers' = Replace(workers, w,
                AfterCalls([w EXCEPT !.nAdd = w.nAdd + 1], Tail(w.todo)))
    /\ hmu' = FALSE
    /\ UNCHANGED <<fetcher, reqQPS, numWorkers, main, hammer, ticker, workChan,
                   quota, refill, ticktock>>

\* the timer of an expiry goroutine for classification c has fired:
\* hmu.Lock()
ExpiryLock(c) ==
    /\ ~hmu
    /\ \E e \in BagToSet(expiry) :
        /\ e.s = c
        /\ e.pc = "sleep" /\ Fired(e)
        /\ expiry' = Replace(expiry, e, [e EXCEPT !.pc = "decr"])
    /\ hmu' = TRUE
    /\ UNCHANGED <<fetcher, reqQPS, numWorkers, main, hammer, ticker, workChan,
                   workers, histogram, quota, refill, ticktock>>

\* histogram[s]--
ExpiryDecrement ==
    /\ \E e \in BagToSet(expiry) :
        /\ e.pc = "decr"
        /\ histogram' = Decrement(histogram, e.s)
        /\ expiry' = Replace(expiry, e, [e EXCEPT !.pc = "check"])
    /\ UNCHANGED <<fetcher, reqQPS, numWorkers, main, hammer, ticker, workChan,
                   workers, hmu, quota, refill, ticktock>>

\* if histogram[s] == 0 { delete }, the deferred hmu.Unlock(), and the
\* goroutine ends
ExpiryDelete ==
    /\ \E e \in BagToSet(expiry) :
        /\ e.pc = "check"
        /\ histogram' = DeleteIfZero(histogram, e.s)
        /\ expiry' = expiry (-) One(e)
    /\ hmu' = FALSE
    /\ UNCHANGED <<fetcher, reqQPS, numWorkers, main, hammer, ticker, workChan,
                   workers, quota, refill, ticktock>>

----------------------------------------------------------------------------
(* hammer, lines 97-120 *)

\* for i := 0; i < numWorkers; i++ { go worker }, then time.Tick starts
HammerSpawn ==
    /\ hammer.pc = "spawn"
    /\ IF hammer.i < numWorkers
       THEN /\ workers' = workers (+) One(NewWorker)
            /\ hammer' = [hammer EXCEPT !.i = hammer.i + 1]
            /\ UNCHANGED ticker
       ELSE /\ hammer' = [pc |-> "tick_wait", i |-> 0]
            /\ ticker' = [t |-> Second, ready |-> FALSE]
            /\ UNCHANGED workers
    /\ UNCHANGED <<fetcher, reqQPS, numWorkers, main, workChan, hmu, histogram,
                   expiry, quota, refill, ticktock>>

\* range time.Tick(time.Second) delivers: a refill starts
HammerTick ==
    /\ hammer.pc = "tick_wait"
    /\ ticker.ready
    /\ ticker' = [ticker EXCEPT !.ready = FALSE]
    /\ hammer' = [hammer EXCEPT !.pc = "drain"]
    /\ quota' = << reqQPS >>
    /\ UNCHANGED <<fetcher, reqQPS, numWorkers, main, workChan, workers, hmu,
                   histogram, expiry, refill, ticktock>>

\* a bug: the select of the drain loop is run once, not in a loop
HammerDrainOnce ==
    /\ hammer.pc = "drain"
    /\ workChan' = IF workChan > 0 THEN workChan - 1 ELSE 0
    /\ hammer' = [pc |-> "emit", i |-> 0]
    /\ refill' = NewRefill
    /\ UNCHANGED <<fetcher, reqQPS, numWorkers, main, ticker, workers, hmu,
                   histogram, expiry, quota, ticktock>>

\* a bug: the drain loop is missing
HammerNoDrain ==
    /\ hammer.pc = "drain"
    /\ hammer' = [pc |-> "emit", i |-> 0]
    /\ refill' = NewRefill
    /\ UNCHANGED <<fetcher, reqQPS, numWorkers, main, ticker, workChan, workers,
                   hmu, histogram, expiry, quota, ticktock>>

\* one round of the drain loop: select { case <-workChan: default: break }
HammerDrain ==
    /\ hammer.pc = "drain"
    /\ IF workChan > 0
       THEN /\ workChan' = workChan - 1
            /\ UNCHANGED <<hammer, refill>>
       ELSE /\ hammer' = [pc |-> "emit", i |-> 0]
            /\ refill' = NewRefill
            /\ UNCHANGED workChan
    /\ UNCHANGED <<fetcher, reqQPS, numWorkers, main, ticker, workers, hmu,
                   histogram, expiry, quota, ticktock>>

\* the loop condition i < atomic.LoadInt32(&reqQPS)
HammerEmitCheck ==
    /\ hammer.pc = "emit"
    /\ hammer' = [hammer EXCEPT
                    !.pc = IF hammer.i < reqQPS THEN "send" ELSE "tick_wait"]
    /\ refill' = Read(refill, reqQPS)
    /\ UNCHANGED <<fetcher, reqQPS, numWorkers, main, ticker, workChan, workers,
                   hmu, histogram, expiry, quota, ticktock>>

\* workChan <- struct{}{}; i++: a parked worker receives the ticket
\* directly; otherwise it is buffered, and the send blocks while the buffer
\* is full
HammerSend ==
    /\ hammer.pc = "send"
    /\ IF \E w \in BagToSet(workers) : w.pc = "parked"
       THEN /\ \E w \in BagToSet(workers) :
                /\ w.pc = "parked"
                /\ workers' = Replace(workers, w, Took(w))
            /\ refill' = Taken(refill)
            /\ UNCHANGED workChan
       ELSE /\ workChan < WorkChanCap
            /\ workChan' = workChan + 1
            /\ UNCHANGED <<workers, refill>>
    /\ hammer' = [pc |-> "emit", i |-> hammer.i + 1]
    /\ UNCHANGED <<fetcher, reqQPS, numWorkers, main, ticker, hmu,
                   histogram, expiry, quota, ticktock>>

\* The whole drain loop, lines 106-113, run while no worker exists: nothing
\* else receives from workChan, so the loop empties it.
HammerDrainAll ==
    /\ hammer.pc = "drain"
    /\ workers = EmptyBag
    /\ workChan' = 0
    /\ hammer' = [pc |-> "emit", i |-> 0]
    /\ refill' = NewRefill
    /\ UNCHANGED <<fetcher, reqQPS, numWorkers, main, ticker, workers, hmu,
                   histogram, expiry, quota, ticktock>>

\* The emission loop, lines 116-118, run while no worker exists up to its
\* last send or the first send that finds the buffer full: every send before
\* that one puts a ticket into the buffer.
HammerEmitRun ==
    /\ hammer.pc = "emit"
    /\ workers = EmptyBag
    /\ IF hammer.i < reqQPS
       THEN LET n == Min(reqQPS - hammer.i - 1, WorkChanCap - workChan)
            IN  /\ workChan' = workChan + n
                /\ hammer' = [pc |-> "send", i |-> hammer.i + n]
       ELSE /\ hammer' = [hammer EXCEPT !.pc = "tick_wait"]
            /\ UNCHANGED workChan
    /\ refill' = Read(refill, reqQPS)
    /\ UNCHANGED <<fetcher, reqQPS, numWorkers, main, ticker, workers, hmu,
                   histogram, expiry, quota, ticktock>>

----------------------------------------------------------------------------
(* main, lines 30-95, and draw, lines 204-235 *)

\* a bug: the switch on *fetcher is missing
StartupUnchecked ==
    /\ main.pc = "start"
    /\ main' = [main EXCEPT !.pc = "draw", !.ret = "go_hammer"]
    /\ UNCHANGED <<fetcher, reqQPS, numWorkers, hammer, ticker, workChan,
                   workers, hmu, histogram, expiry, quota,
                   refill, ticktock>>

\* the switch on *fetcher, then the first draw()
Startup ==
    /\ main.pc = "start"
    /\ main' = IF fetcher \in Fetchers
               THEN [main EXCEPT !.pc = "draw", !.ret = "go_hammer"]
               ELSE [main EXCEPT !.pc = "exited"]
    /\ UNCHANGED <<fetcher, reqQPS, numWorkers, hammer, ticker, workChan,
                   workers, hmu, histogram, expiry, quota,
                   refill, ticktock>>

\* draw: hmu.Lock()
DrawLock ==
    /\ main.pc = "draw"
    /\ ~hmu
    /\ hmu' = TRUE
    /\ main' = [main EXCEPT !.pc = "draw_read"]
    /\ UNCHANGED <<fetcher, reqQPS, numWorkers, hammer, ticker, workChan,
                   workers, histogram, expiry, quota, refill,
                   ticktock>>

\* draw: the histogram is read and printed, then the deferred hmu.Unlock()
DrawRead ==
    /\ main.pc = "draw_read"
    /\ hmu' = FALSE
    /\ main' = [main EXCEPT !.pc = main.ret]
    /\ UNCHANGED <<fetcher, reqQPS, numWorkers, hammer, ticker, workChan,
                   workers, histogram, expiry, quota, refill,
                   ticktock>>

\* go hammer(u, workChan, doneChan)
GoHammer ==
    /\ main.pc = "go_hammer"
    /\ hammer' = [pc |-> "spawn", i |-> 0]
    /\ main' = [main EXCEPT !.pc = "poll"]
    /\ UNCHANGED <<fetcher, reqQPS, numWorkers, ticker, workChan, workers, hmu,
                   histogram, expiry, quota, refill, ticktock>>

\* termbox.EventInterrupt: draw(), up to its hmu.Lock(); nothing shared is
\* written between the poll and the lock
EventInterrupt ==
    /\ main.pc = "poll"
    /\ ~hmu
    /\ hmu' = TRUE
    /\ main' = [main EXCEPT !.pc = "draw_read", !.ret = "poll"]
    /\ UNCHANGED <<fetcher, reqQPS, numWorkers, hammer, ticker, workChan,
                   workers, histogram, expiry, quota, refill,
                   ticktock>>

\* KeyArrowUp: reqQPS = 2*q, draw()
KeyArrowUp ==
    /\ main.pc = "poll"
    /\ reqQPS' = DoubleRate(reqQPS)
    /\ main' = [main EXCEPT !.pc = "draw", !.ret = "poll"]
    /\ UNCHANGED <<fetcher, numWorkers, hammer, ticker, workChan, workers, hmu,
                   histogram, expiry, quota, refill, ticktock>>

\* KeyArrowDown: reqQPS = q/2, draw()
KeyArrowDown ==
    /\ main.pc = "poll"
    /\ reqQPS' = HalveRate(reqQPS)
    /\ main' = [main EXCEPT !.pc = "draw", !.ret = "poll"]
    /\ UNCHANGED <<fetcher, numWorkers, hammer, ticker, workChan, workers, hmu,
                   histogram, expiry, quota, refill, ticktock>>

\* KeyArrowRight: the loop starts with i = 0
KeyArrowRight ==
    /\ main.pc = "poll"
    /\ main' = [main EXCEPT !.pc = "right_spawn", !.i = 0]
    /\ UNCHANGED <<fetcher, reqQPS, numWorkers, hammer, ticker, workChan,
                   workers, hmu, histogram, expiry, quota,
                   refill, ticktock>>

\* go worker(u, workChan, doneChan)
RightSpawn ==
    /\ main.pc = "right_spawn"
    /\ workers' = workers (+) One(NewWorker)
    /\ main' = [main EXCEPT !.pc = "right_inc"]
    /\ UNCHANGED <<fetcher, reqQPS, numWorkers, hammer, ticker, workChan, hmu,
                   histogram, expiry, quota, refill, ticktock>>

\* numWorkers = numWorkers + 1; i++; i < 10
RightInc ==
    /\ main.pc = "right_inc"
    /\ numWorkers' = numWorkers + 1
    /\ main' = [main EXCEPT !.i = main.i + 1,
                    !.pc = IF main.i + 1 < StepWorkers THEN "right_spawn" ELSE "poll"]
    /\ UNCHANGED <<fetcher, reqQPS, hammer, ticker, workChan, workers, hmu,
                   histogram, expiry, quota, refill, ticktock>>

\* KeyArrowLeft: the loop starts with i = 0 and tests numWorkers > 0; main
\* then stands in doneChan <- struct{}{} until a worker receives
KeyArrowLeft ==
    /\ main.pc = "poll"
    /\ main' = [main EXCEPT !.i = 0,
                    !.pc = IF numWorkers > 0 THEN "left_send" ELSE "poll"]
    /\ UNCHANGED <<fetcher, reqQPS, numWorkers, hammer, ticker, workChan,
                   workers, hmu, histogram, expiry, quota,
                   refill, ticktock>>

\* a bug: the loop tests only i < 10
LeftDecNoFloor ==
    /\ main.pc = "left_dec"
    /\ numWorkers' = numWorkers - 1
    /\ main' = [main EXCEPT !.i = main.i + 1,
                    !.pc = IF main.i + 1 < StepWorkers
                           THEN "left_send" ELSE "poll"]
    /\ UNCHANGED <<fetcher, reqQPS, hammer, ticker, workChan, workers, hmu,
                   histogram, expiry, quota, refill, ticktock>>

\* numWorkers = numWorkers - 1; i++; i < 10 && numWorkers > 0
LeftDec ==
    /\ main.pc = "left_dec"
    /\ numWorkers' = numWorkers - 1
    /\ main' = [main EXCEPT !.i = main.i + 1,
                    !.pc = IF main.i + 1 < StepWorkers /\ numWorkers - 1 > 0
                           THEN "left_send" ELSE "poll"]
    /\ UNCHANGED <<fetcher, reqQPS, hammer, ticker, workChan, workers, hmu,
                   histogram, expiry, quota, refill, ticktock>>

\* KeyCtrlC: termbox.Close(); os.Exit(0)
KeyCtrlC ==
    /\ main.pc = "poll"
    /\ main' = [main EXCEPT !.pc = "exited"]
    /\ UNCHANGED <<fetcher, reqQPS, numWorkers, hammer, ticker, workChan,
                   workers, hmu, histogram, expiry, quota,
                   refill, ticktock>>

----------------------------------------------------------------------------
(* requestTimeout *)

\* time.Second in nanoseconds, the unit of time.Duration
SecondNanos == 1000000000

\* Durations are kept in nanoseconds. Everything above one second is
\* recorded as AboveRange and everything below minus one second as
\* BelowRange: the function itself only compares with time.Second.
AboveRange == SecondNanos + 1
BelowRange == -SecondNanos - 1

\* floor((rem + r*n) / q) for 0 <= rem < q and 0 <= r < q, by repeated
\* addition so that no intermediate value leaves 32 bits
RECURSIVE FloorMul(_, _, _, _)
FloorMul(r, n, q, rem) ==
    IF n = 0 THEN 0
    ELSE LET t == rem + r
         IN  IF t >= q THEN 1 + FloorMul(r, n - 1, q, t - q)
             ELSE FloorMul(r, n - 1, q, t)

\* time.Duration(float64(time.Second) * (float64(w) / float64(q))) for
\* w >= 0 and q > 0: the conversion truncates. The rates the keys produce
\* are powers of two, for which the float64 arithmetic is exact.
Scale(w, q) ==
    IF w > q THEN AboveRange
    ELSE IF w = q THEN SecondNanos
    ELSE (SecondNanos \div q) * w + FloorMul(SecondNanos % q, w, q, 0)

\* the same for a negative rate; -q does not exist for q = -2^31
ScaleNegative(w, q) ==
    IF q = -Quarter - Quarter
    THEN -(Scale(w, Quarter) \div 2)
    ELSE IF w > -q THEN BelowRange
    ELSE -Scale(w, -q)

\* The values requestTimeout can return for numWorkers = w >= 0 and
\* reqQPS = q. With q = 0 the quotient is +Inf (NaN for w = 0), and what
\* the conversion of such a float64 to an integer gives depends on the
\* platform: the smallest int64 on amd64; the largest int64 for +Inf and
\* 0 for NaN where the conversion saturates.
requestTimeout(w, q) ==
    LET d == IF q > 0 THEN {Scale(w, q)}
             ELSE IF q < 0 THEN {ScaleNegative(w, q)}
             ELSE IF w = 0 THEN {BelowRange, 0}
             ELSE {BelowRange, AboveRange}
    IN  {IF x > SecondNanos THEN SecondNanos ELSE x : x \in d}

----------------------------------------------------------------------------
(* The sleep-based rate controller of the earlier revision (part_000) *)

\* Go's truncating int32 division a / b for a >= 0 and b # 0
Div32(a, b) ==
    IF b > 0 THEN a \div b
    ELSE IF b < -a THEN 0
    ELSE -(a \div (-b))

\* a runtime panic in any goroutine ends the whole process
Running == ticktock.pc # "panic"

\* main up to the event loop: draw(), go hammer(u); hammer spawns its workers
\* and ranges over ticktock(), which starts the sleeping goroutine
SleepMain ==
    /\ main.pc = "start"
    /\ main' = [main EXCEPT !.pc = "poll"]
    /\ hammer' = [hammer EXCEPT !.pc = "range"]
    /\ ticktock' = [pc |-> "divide", delay |-> 0]
    /\ UNCHANGED <<fetcher, reqQPS, numWorkers, ticker, workChan, workers,
                   hmu, histogram, expiry, quota, refill>>

\* KeyArrowUp of part_000: reqQPS = 2*q, draw() (which takes no lock)
SleepKeyArrowUp ==
    /\ Running
    /\ main.pc = "poll"
    /\ hammer.pc \in {"range", "dispatch"}
    /\ reqQPS' = DoubleRate(reqQPS)
    /\ UNCHANGED <<fetcher, numWorkers, main, hammer, ticker, workChan,
                   workers, hmu, histogram, expiry, quota, refill, ticktock>>

\* KeyArrowDown of part_000: reqQPS = q/2, draw()
SleepKeyArrowDown ==
    /\ Running
    /\ main.pc = "poll"
    /\ hammer.pc \in {"range", "dispatch"}
    /\ reqQPS' = HalveRate(reqQPS)
    /\ UNCHANGED <<fetcher, numWorkers, main, hammer, ticker, workChan,
                   workers, hmu, histogram, expiry, quota, refill, ticktock>>

\* int32(time.Second) / atomic.LoadInt32(&reqQPS): an integer division by
\* zero is a runtime panic
TicktockDivide ==
    /\ ticktock.pc = "divide"
    /\ ticktock' = IF reqQPS = 0
                   THEN [ticktock EXCEPT !.pc = "panic"]
                   ELSE [pc |-> "sleep", delay |-> Div32(SecondNanos, reqQPS)]
    /\ UNCHANGED <<fetcher, reqQPS, numWorkers, main, hammer, ticker,
                   workChan, workers, hmu, histogram, expiry, quota, refill>>

\* time.Sleep(d) returns; a delay of zero or less returns at once
TicktockSleep ==
    /\ Running
    /\ ticktock.pc = "sleep"
    /\ ticktock' = [ticktock EXCEPT !.pc = "send"]
    /\ UNCHANGED <<fetcher, reqQPS, numWorkers, main, hammer, ticker,
                   workChan, workers, hmu, histogram, expiry, quota, refill>>

\* c <- struct{}{} meets hammer's range over the unbuffered channel
TicktockSend ==
    /\ Running
    /\ ticktock.pc = "send"
    /\ hammer.pc = "range"
    /\ ticktock' = [ticktock EXCEPT !.pc = "divide"]
    /\ hammer' = [hammer EXCEPT !.pc = "dispatch"]
    /\ UNCHANGED <<fetcher, reqQPS, numWorkers, main, ticker, workChan,
                   workers, hmu, histogram, expiry, quota, refill>>

\* ch <- url: hammer hands the url to a worker that is back at its range
\* over ch; without workers the send never completes
SleepHammerSend ==
    /\ Running
    /\ hammer.pc = "dispatch"
    /\ numWorkers > 0
    /\ hammer' = [hammer EXCEPT !.pc = "range"]
    /\ UNCHANGED <<fetcher, reqQPS, numWorkers, main, ticker, workChan,
                   workers, hmu, histogram, expiry, quota, refill, ticktock>>

----------------------------------------------------------------------------
(* Specifications *)

\* what the goroutines do by themselves, the stopping of workers aside
Program ==
    \/ Startup \/ DrawLock \/ DrawRead \/ GoHammer
    \/ HammerSpawn \/ HammerTick \/ HammerDrain \/ HammerEmitCheck \/ HammerSend
    \/ WorkerSelectDefault \/ WorkerRecv
    \/ AddIncrement
    \/ (\E c \in Classes : ExpiryLock(c)) \/ ExpiryDecrement \/ ExpiryDelete

\* the left arrow and what follows from it
StopWorkers == KeyArrowLeft \/ WorkerStop \/ LeftDec

\* the rate keys, the up arrow only below MaxRate
RateKeys ==
    \/ reqQPS < MaxRate /\ KeyArrowUp
    \/ KeyArrowDown

\* The program at its initial rate, with --fetcher at its default and a
\* server whose responses can be read: the user presses only the left arrow.
Init == InitFlags(MaxInitWorkers) /\ fetcher = "go"

Next ==
    \/ Program
    \/ AddLock(MaxPending)
    \/ WorkerFetch(CleanOutcomes)
    \/ Tick
    \/ EventInterrupt
    \/ StopWorkers

Spec == Init /\ [][Next]_vars

\* The program with every fetcher and every request outcome; the user
\* presses only the left arrow.
InitWork == InitFlags(MaxFewWorkers)

NextWork ==
    \/ Program
    \/ AddLock(MaxFewPending)
    \/ WorkerFetch(Outcomes)
    \/ Tick
    \/ EventInterrupt
    \/ StopWorkers

SpecWork == InitWork /\ [][NextWork]_vars

\* The program with a user who presses only the rate keys.
InitFew == InitFlags(MaxFewWorkers) /\ fetcher = "go"

NextRefill ==
    \/ Program
    \/ AddLock(MaxFewPending)
    \/ WorkerFetch(CleanOutcomes)
    \/ Tick
    \/ EventInterrupt
    \/ RateKeys

SpecRefill == InitFew /\ [][NextRefill]_vars

\* The program at its initial rate, the user pressing only the left arrow,
\* with the clock that tells how late an expiry is.
NextWindow ==
    \/ Program
    \/ AddLock(MaxPending)
    \/ WorkerFetch(CleanOutcomes)
    \/ TickLate
    \/ EventInterrupt
    \/ StopWorkers

SpecWindow == InitFew /\ [][NextWindow]_vars

\* What the Go scheduler, its timers and sync.Mutex guarantee: time passes,
\* a goroutine that can run does run, and a goroutine waiting for hmu gets
\* it if it is released again and again.  Nothing makes the user press a key.
Fairness ==
    /\ WF_vars(Tick)
    /\ WF_vars(Startup \/ DrawRead \/ GoHammer \/ LeftDec)
    /\ SF_vars(DrawLock)
    /\ WF_vars(HammerSpawn \/ HammerTick \/ HammerDrain \/ HammerEmitCheck
                \/ HammerSend)
    /\ WF_vars(WorkerStop)
    /\ WF_vars(WorkerSelectDefault)
    /\ WF_vars(WorkerRecv)
    /\ WF_vars(WorkerFetch(CleanOutcomes))
    /\ SF_vars(AddLock(MaxFewPending))
    /\ WF_vars(AddIncrement)
    /\ SF_vars(\E c \in Classes : ExpiryLock(c))
    /\ WF_vars(ExpiryDecrement)
    /\ WF_vars(ExpiryDelete)

\* The scheduled program at its initial rate: the user presses only the
\* left arrow.
NextFair ==
    \/ Program
    \/ AddLock(MaxFewPending)
    \/ WorkerFetch(CleanOutcomes)
    \/ Tick
    \/ EventInterrupt
    \/ StopWorkers

SpecFair == InitFew /\ [][NextFair]_vars /\ Fairness

\* The scheduled program with a user who lowers the rate and presses the
\* left arrow.
NextPause ==
    \/ Program
    \/ AddLock(MaxFewPending)
    \/ WorkerFetch(CleanOutcomes)
    \/ Tick
    \/ EventInterrupt
    \/ StopWorkers
    \/ KeyArrowDown

SpecPause == InitFew /\ [][NextPause]_vars /\ Fairness

\* The scheduled program with a user who only lowers the rate: every press
\* redraws, so the main thread keeps competing for the histogram's lock.
NextLock ==
    \/ Program
    \/ AddLock(MaxFewPending)
    \/ WorkerFetch(CleanOutcomes)
    \/ Tick
    \/ EventInterrupt
    \/ KeyArrowDown

SpecLock == InitFew /\ [][NextLock]_vars /\ Fairness

\* The pool before the first tick: the user presses the left and right
\* arrows.
NextPool ==
    \/ Startup \/ DrawLock \/ DrawRead \/ GoHammer
    \/ HammerSpawn
    \/ WorkerSelectDefault \/ WorkerRecv
    \/ EventInterrupt
    \/ (numWorkers + StepWorkers <= MaxPoolWorkers /\ KeyArrowRight)
    \/ RightSpawn \/ RightInc
    \/ StopWorkers

SpecPool == InitFew /\ [][NextPool]_vars

\* The rate keys alone, over the whole of int32, until the user quits.
NextRate ==
    \/ Startup \/ DrawLock \/ DrawRead \/ GoHammer
    \/ EventInterrupt
    \/ KeyArrowUp \/ KeyArrowDown
    \/ KeyCtrlC

SpecRate == InitFew /\ [][NextRate]_vars

\* the sleep-based revision with both rate keys, unrestricted
NextTicktock ==
    \/ SleepMain
    \/ SleepKeyArrowUp \/ SleepKeyArrowDown
    \/ TicktockDivide \/ TicktockSleep \/ TicktockSend
    \/ SleepHammerSend

SpecTicktock == InitFew /\ [][NextTicktock]_vars

\* The scheduled program started with -w 0: the user presses only the up
\* arrow, and hammer runs its loops without a key press in between.
\* sendTermboxInterrupts makes main redraw again and again.
InitEmit == InitFlags(0) /\ fetcher = "go"

NextEmit ==
    \/ Startup \/ DrawLock \/ DrawRead \/ GoHammer
    \/ HammerSpawn \/ HammerTick \/ HammerDrainAll \/ HammerEmitRun
    \/ HammerSend
    \/ Tick
    \/ EventInterrupt
    \/ (reqQPS < 2 ^ MaxDoublings /\ KeyArrowUp)

FairnessEmit ==
    /\ WF_vars(Tick)
    /\ WF_vars(Startup \/ DrawRead \/ GoHammer)
    /\ SF_vars(DrawLock)
    /\ SF_vars(EventInterrupt)
    /\ WF_vars(HammerSpawn \/ HammerTick \/ HammerDrainAll \/ HammerEmitRun
                \/ HammerSend)

SpecEmit == InitEmit /\ [][NextEmit]_vars /\ FairnessEmit

\* The program started with -w 0, up to the workers' taking of tickets:
\* the user presses the right arrow while hammer is in its spawn loop, and
\* the left arrow.
NextIdle ==
    \/ Startup \/ DrawLock \/ DrawRead \/ GoHammer
    \/ HammerSpawn \/ HammerTick \/ HammerDrain \/ HammerEmitCheck \/ HammerSend
    \/ WorkerSelectDefault \/ WorkerRecv
    \/ Tick
    \/ (/\ hammer.pc = "spawn"
        /\ numWorkers + StepWorkers <= MaxPoolWorkers
        /\ KeyArrowRight)
    \/ RightSpawn \/ RightInc
    \/ StopWorkers

SpecIdle == InitEmit /\ [][NextIdle]_vars

----------------------------------------------------------------------------
(* The histogram *)

\* the outcomes of classification c that are counted and whose expiry
\* goroutine has not decremented yet
Live(c) == CountIf(expiry, LAMBDA e : e.s = c /\ e.pc \in {"sleep", "decr"})

\* C1: whenever hmu is free, the histogram is the multiset of the live
\* outcomes: every classification's count is the number of outcomes recorded
\* and not yet expired, and a classification with none is no key of the map.
C1_HistogramIsLiveMultiset ==
    ~hmu =>
        /\ DOMAIN histogram \subseteq Classes
        /\ \A c \in Classes :
            /\ Get(histogram, c) = Live(c)
            /\ c \in DOMAIN histogram <=> Live(c) >= 1

\* two outcomes of one classification are live while a worker waits for hmu
\* and an expiry goroutine is due
C1_Witness ==
    /\ ~hmu
    /\ \E c \in Classes : Get(histogram, c) = 2
    /\ \E w \in BagToSet(workers) : w.pc = "add_lock"
    /\ \E e \in BagToSet(expiry) : Fired(e)

\* the snapshot that draw is taking: main holds hmu and reads the map
Snapshot == main.pc = "draw_read"

Recording == \E w \in BagToSet(workers) : w.todo # << >>

\* C3: no snapshot shows a classification with a count of 0 or less, and
\* if from some time on no further outcome is recorded, then from some time
\* on no classification is a key of the histogram.
C3_ExpiresToAbsent ==
    /\ [](Snapshot => \A c \in DOMAIN histogram : histogram[c] >= 1)
    /\ <>[](~Recording) => <>[](histogram = EmptyMap)

\* the workers are gone and the last expiry goroutine has brought its
\* classification to 0 and is about to delete it
C3_Witness ==
    /\ workers = EmptyBag
    /\ BagCardinality(expiry) = 1
    /\ \E e \in BagToSet(expiry) :
        /\ e.pc = "check"
        /\ e.s \in DOMAIN histogram
        /\ histogram[e.s] = 0

----------------------------------------------------------------------------
(* The worker loop *)

\* what a worker has done with the permission of its current iteration
Accounted(w) ==
    CASE w.pc = "select" ->
            w.nExec = w.perm /\ w.nAdd = w.perm /\ w.todo = << >>
      [] w.pc \in {"recv", "parked"} ->
            w.perm = 0 /\ w.nExec = 0 /\ w.nAdd = 0 /\ w.todo = << >>
      [] w.pc = "fetch" ->
            w.perm = 1 /\ w.nExec = 0 /\ w.nAdd = 0
      [] OTHER ->
            w.perm = 1 /\ w.nExec = 1 /\ w.nAdd = 0 /\ Len(w.todo) = 1

\* C4: a worker that has taken a permission invokes the executor once and
\* then calls addToHistogram once, and is back at the top of its loop with
\* exactly one of each; a worker leaves the pool only from the top of its
\* loop, so never between taking a permission and recording its outcome.
C4_OnePermissionOneOutcome ==
    /\ [](\A w \in BagToSet(workers) : Accounted(w))
    /\ [][BagCardinality(workers') < BagCardinality(workers) =>
            \E w \in BagToSet(workers) :
                /\ w.pc = "select"
                /\ workers' = workers (-) One(w)]_vars

\* main stands in its send on doneChan while the worker, which was in
\* flight, is back at the top of its loop with its outcome recorded; a
\* response body that could not be closed has been counted
C4_Witness ==
    /\ main.pc = "left_send"
    /\ \E w \in BagToSet(workers) : w.pc = "select" /\ w.perm = 1 /\ w.nAdd = 1
    /\ CloseFailed \in DOMAIN histogram

----------------------------------------------------------------------------
(* The pool of workers *)

\* no command is being handled and hammer's spawn loop is over
Settled == main.pc = "poll" /\ hammer.pc = "tick_wait"

\* C5: once the handlers of the arrow keys have returned and hammer's spawn
\* loop is over, as many workers run as numWorkers says.
C5_PoolMatchesCounter == Settled => BagCardinality(workers) = numWorkers

----------------------------------------------------------------------------
(* Scaling down *)

\* C6: main, standing in its send on doneChan, gets back to polling events.
C6_StopReturns == (main.pc = "left_send") ~> (main.pc = "poll")

----------------------------------------------------------------------------
(* The rate *)

\* C7: reqQPS is never negative.
C7_RateNeverNegative == reqQPS >= 0

\* a refill that started at rate 0 is past its drain loop
PausedRefill == quota = << 0 >> /\ hammer.pc \in {"emit", "send", "tick_wait"}

\* the workers that hold a ticket
Holding == CountIf(workers, LAMBDA w : w.perm = 1)

C9_QuotaIsSampledRate ==
    hammer.pc = "tick_wait" /\ quota # << >> => hammer.i = quota[1]

----------------------------------------------------------------------------
(* Emission *)

\* C10: hammer, standing in a send of its emission loop, gets to wait for
\* the next tick.
C10_EmissionEnds == (hammer.pc = "send") ~> (hammer.pc = "tick_wait")

----------------------------------------------------------------------------
(* The pool at 0 *)

\* C11: while numWorkers is 0 and main is not in the middle of adding a
\* worker, no worker takes a ticket.
C11_IdleAtZero ==
    [][numWorkers = 0 /\ main.pc # "right_inc" => Holding' <= Holding]_vars

----------------------------------------------------------------------------
(* A misconfigured fetcher *)

\* C12: when --fetcher is none of go, noop and curl, main exits at startup:
\* hammer is never started, no worker ever runs and nothing is ever recorded.
C12_MisconfiguredExits ==
    fetcher \notin Fetchers =>
        /\ main.pc \in {"start", "exited"}
        /\ hammer.pc = "none"
        /\ workers = EmptyBag
        /\ histogram = EmptyMap
        /\ expiry = EmptyBag

\* main has exited on a --fetcher it does not know
C12_Witness == fetcher \notin Fetchers /\ main.pc = "exited"

----------------------------------------------------------------------------
(* The end of a worker *)

\* the workers at one of the places pcs of the loop
At(pcs) == CountIf(workers, LAMBDA w : w.pc \in pcs)

\* the classifications of a failed request
Failures == {ReadFailed, CloseFailed, ErrText, CurlError}

\* C13: the number of workers goes down only by one worker's receiving
\* main's send on doneChan; a worker whose request has come back, whatever
\* the outcome, stays in the pool with a classification to record, and once
\* it is recorded the worker is back at the top of its loop.
C13_OnlyStopEnds ==
    /\ [][BagCardinality(workers') < BagCardinality(workers) =>
            /\ main.pc = "left_send" /\ main'.pc = "left_dec"
            /\ BagCardinality(workers') = BagCardinality(workers) - 1]_vars
    /\ [][At({"fetch"})' < At({"fetch"}) =>
            /\ At({"add_lock"})' = At({"add_lock"}) + 1
            /\ \A w \in BagToSet(workers') :
                    w.pc = "add_lock" => Head(w.todo) \in Classes]_vars
    /\ [][At({"add_incr"})' < At({"add_incr"}) =>
            At({"select"})' = At({"select"}) + 1]_vars

\* the only worker has recorded a failed request and is in its next request
C13_Witness ==
    /\ BagCardinality(workers) = 1
    /\ \E w \in BagToSet(workers) : w.pc = "fetch"
    /\ DOMAIN histogram \cap Failures # {}

----------------------------------------------------------------------------
(* The rate keys *)

\* C14: at every rate the program can be at, the up arrow followed by the
\* down arrow gives that rate again.
C14_UpDownRestores == HalveRate(DoubleRate(reqQPS)) = reqQPS

----------------------------------------------------------------------------
(* hmu *)

\* the goroutines between hmu.Lock() and hmu.Unlock(): workers inside
\* addToHistogram, expiry goroutines at their decrement or delete, and main
\* inside draw
InCritical ==
    At({"add_incr"})
    + CountIf(expiry, LAMBDA e : e.pc \in {"decr", "check"})
    + (IF main.pc = "draw_read" THEN 1 ELSE 0)

\* an expiry goroutine whose timer has fired stands at hmu.Lock()
ExpiryWaits == \E e \in BagToSet(expiry) : e.pc = "sleep" /\ Fired(e)

----------------------------------------------------------------------------
(* The worker counter *)

\* C16: numWorkers is never negative; main sends on doneChan only while
\* numWorkers is positive and fewer than StepWorkers signals have been sent
\* for the key; every signal is received by exactly one worker and followed
\* by exactly one decrement of numWorkers, and numWorkers never goes down
\* otherwise.
C16_CounterNeverNegative ==
    /\ [](numWorkers >= 0)
    /\ [](main.pc = "left_send" => numWorkers > 0 /\ main.i < StepWorkers)
    /\ [][main'.pc = "left_dec" /\ main.pc # "left_dec" =>
            /\ main.pc = "left_send"
            /\ BagCardinality(workers') = BagCardinality(workers) - 1
            /\ numWorkers' = numWorkers]_vars
    /\ [][main.pc = "left_dec" /\ main' # main =>
            numWorkers' = numWorkers - 1]_vars
    /\ [][numWorkers' < numWorkers => main.pc = "left_dec"]_vars

\* the left arrow, pressed with one worker running, has sent one signal and
\* stopped at 0
C16_Witness ==
    /\ main.pc = "poll"
    /\ main.i = 1
    /\ numWorkers = 0
    /\ workers = EmptyBag
    /\ hammer.pc = "tick_wait"

----------------------------------------------------------------------------
(* Tickets of one refill *)

\* hammer is past the drain loop of a refill
Drained == quota # << >> /\ hammer.pc \in {"emit", "send", "tick_wait"}

\* C17: the drain loop ends with workChan empty; the workers have taken, since
\* the latest drain, at most the tickets hammer has sent since then; past
\* the drain every ticket sent is either buffered or taken, and the tickets
\* sent, hence those buffered, are at most the largest rate the emission
\* loop has read.
C17_NoCarryOver ==
    /\ [](refill.taken <= hammer.i)
    /\ [](Drained => /\ workChan + refill.taken = hammer.i
                     /\ hammer.i <= refill.maxRead
                     /\ workChan <= refill.maxRead)
    /\ [][hammer.pc = "drain" /\ hammer'.pc = "emit" => workChan' = 0]_vars

\* a refill starts: of the tickets of the last one a worker has taken one,
\* and one, left in the buffer, is about to be drained
C17_Witness ==
    /\ hammer.pc = "drain"
    /\ workChan > 0
    /\ refill.taken > 0

\* C18: in the sleep-based rate controller, whatever the rate keys did to
\* the rate, the divisor of int32(time.Second) / reqQPS is never zero and
\* the emitter goroutine never faults.
C18_NoDivisionByZero ==
    /\ ticktock.pc = "divide" => reqQPS # 0
    /\ ticktock.pc # "panic"

\* the rates that finitely many presses of the two rate keys lead to from
\* the rates in S
RECURSIVE RatesFrom(_)
RatesFrom(S) ==
    LET T == S \cup {DoubleRate(q) : q \in S} \cup {HalveRate(q) : q \in S}
    IN  IF T = S THEN S ELSE RatesFrom(T)

\* C19: once the rate has reached 0, some finite sequence of presses of the
\* rate keys makes it positive again: rate 0 is not absorbing.
C19_ZeroNotAbsorbing ==
    reqQPS = 0 => \E q \in RatesFrom({reqQPS}) : q > 0

\* C20: whenever a worker is about to issue a request with the go fetcher,
\* the timeout it gets from requestTimeout is one well-defined value,
\* strictly positive and at most one second: a full second when there are
\* at least as many workers as requests per second, less otherwise.
C20_TimeoutWellDefined ==
    fetcher = "go" /\ At({"fetch"}) > 0 =>
        /\ Cardinality(requestTimeout(numWorkers, reqQPS)) = 1
        /\ \A d \in requestTimeout(numWorkers, reqQPS) :
              /\ 0 < d
              /\ d <= SecondNanos
              /\ d = SecondNanos <=> numWorkers >= reqQPS

============================================================================
